---- MODULE Spec2Model ----
(***************************************************************************)
(* Model of scraper/legistar_scraper.py: the LegistarScraper class         *)
(* (construction, token resolution, fetch, extraction, batch processing,   *)
(* persistence) and the command-line entry point main().                   *)
(*                                                                         *)
(* Python values are represented as follows.  None is the string "None"    *)
(* (which is also what an f-string renders it as).  Strings are strings.   *)
(* Matter identifiers are written as digit strings.  A JSON value whose    *)
(* type matters (an element of the response array, a city entry of the     *)
(* configuration file) is a record [t |-> type, v |-> payload]: a dict's   *)
(* payload is the function from its keys to its values, a string's is      *)
(* [value |-> the string], a list's is the sequence of its elements.       *)
(***************************************************************************)
EXTENDS Integers, Sequences, FiniteSets, TLC

VARIABLES
    entry,                \* "main": the CLI entry point; "lib": a caller of the class (as the tests)
    argv,                 \* parsed arguments: [token, limit, output]
    environ,              \* os.environ: a function from variable names to values
    city_file,            \* city_scraper.json next to the module
    pc,                   \* position of the run
    exc,                  \* the exception propagating to / seen by the caller, or None
    ctor_arg,             \* api_token argument handed to LegistarScraper.__init__
    city_config,          \* self.city_config
    api_token,            \* self.api_token
    session,              \* TRUE once self.session = requests.Session() ran
    http_log,             \* every GET issued through self.session, in order
    fetch_calls,          \* number of calls of fetch_recent_matters so far
    response,             \* what the transport answered to the last GET
    returned,             \* value the last direct fetch_recent_matters call returned
    raw_matters,          \* scrape_and_process: raw_matters
    extract_side_effect,  \* positions at which a patched extract_matter_info raises (tests only)
    idx,                  \* scrape_and_process: position of the for loop (1-based)
    processed_matters,    \* scrape_and_process: processed_matters
    matters,              \* value the last scrape_and_process call returned (main: matters)
    saved_as,             \* value returned by the last save_to_json call
    fs,                   \* output files: filename -> [complete, content]
    stdout,               \* lines printed by main's summary
    log,                  \* warning- and error-level records of the logger, in order
    clock,                \* ticks of datetime.utcnow()
    calls,                \* number of method calls made on the instance
    last_call             \* the method called last on the instance, or None

vars == <<entry, argv, environ, city_file, pc, exc, ctor_arg, city_config, api_token,
          session, http_log, fetch_calls, response, returned, raw_matters,
          extract_side_effect, idx, processed_matters, matters, saved_as, fs, stdout,
          log, clock, calls, last_call>>

-----------------------------------------------------------------------------
(* Bounds of the model *)

MaxRecords == 2      \* longest response array
MaxCalls == 2        \* method calls a caller of the class makes on one instance

-----------------------------------------------------------------------------
(* Python values *)

None == "None"

\* bool(v) for v an Optional[str]
Truthy(v) == v # None /\ v # ""

\* Python's `a or b`
Or(a, b) == IF Truthy(a) THEN a ELSE b

Dict(d) == [t |-> "dict", v |-> d]
Str(s) == [t |-> "str", v |-> [value |-> s]]
EmptyDict == Dict(<<>>)

\* bool(j) for a JSON value j
JsonTruthy(j) == IF j.t = "dict" THEN DOMAIN j.v # {} ELSE j.v.value # ""

\* d.get(key, default) on a dict d
Get(d, key, default) == IF key \in DOMAIN d THEN d[key] ELSE default

\* os.getenv(name)
Getenv(env, name) == Get(env, name, None)

\* str.upper() on the city identifiers of the model
Upper(city) == CASE city = "nyc" -> "NYC"
                 [] city = "chicago" -> "CHICAGO"
                 [] OTHER -> city

City == "nyc"

-----------------------------------------------------------------------------
(* Logging: only warning- and error-level records are kept *)

Error(at) == [level |-> "error", at |-> at]
Warning(at) == [level |-> "warning", at |-> at]

-----------------------------------------------------------------------------
(* LegistarScraper.__init__ and the helpers it calls *)

\* f"https://webapi.legistar.com/v1/{city}"
BaseUrl(city) == "https://webapi.legistar.com/v1/" \o city

\* f'LEGISTAR_{city.upper()}_TOKEN'
CityEnvName(city) == "LEGISTAR_" \o Upper(city) \o "_TOKEN"

GenericEnvName == "LEGISTAR_API_TOKEN"

\* _load_city_config: the value returned for a file in state `file`.
\* keys_file.exists() is false: {}.  json.load raises JSONDecodeError, or anything
\* else raises (open fails, the top level has no .get): caught, {}.  Otherwise
\* city_configs.get(city, {}) if that is truthy, else {}.
LoadCityConfig(file, city) ==
    IF file.kind # "json"
    THEN EmptyDict
    ELSE LET config == Get(file.data, city, EmptyDict)
         IN  IF JsonTruthy(config) THEN config ELSE EmptyDict

\* _load_city_config: what one call of it logs
LoadCityConfigLog(file) ==
    CASE file.kind = "malformed" -> <<Error("_load_city_config"), Error("_load_city_config")>>
      [] file.kind = "unreadable" -> <<Warning("_load_city_config")>>
      [] OTHER -> <<>>

\* _load_city_token: [exc, value, log].  The per-city environment variable if
\* truthy; else config.get('token') of a second _load_city_config, if truthy;
\* else None.  config.get raises AttributeError when the entry is not a dict.
LoadCityToken(city, env, file) ==
    LET env_token == Getenv(env, CityEnvName(city))
        config == LoadCityConfig(file, city)
    IN  IF Truthy(env_token)
        THEN [exc |-> None, value |-> env_token, log |-> <<>>]
        ELSE IF config.t # "dict"
        THEN [exc |-> "AttributeError", value |-> None, log |-> LoadCityConfigLog(file)]
        ELSE LET token == Get(config.v, "token", None)
             IN  [exc |-> None,
                  value |-> IF Truthy(token) THEN token ELSE None,
                  log |-> LoadCityConfigLog(file)]

\* mutant of ResolveToken: the environment and the file are asked first, the
\* argument is the fallback
ResolveTokenArgumentLast(arg, city, env, file) ==
    LET loaded == LoadCityToken(city, env, file)
    IN  IF loaded.exc = None /\ ~Truthy(loaded.value)
        THEN [exc |-> None, value |-> IF Truthy(arg) THEN arg ELSE None, log |-> loaded.log]
        ELSE loaded

\* line 26: api_token or self._load_city_token(city)
ResolveToken(arg, city, env, file) ==
    IF Truthy(arg)
    THEN [exc |-> None, value |-> arg, log |-> <<>>]
    ELSE LoadCityToken(city, env, file)

\* mutant of TokenRequired: the flag of the configuration is never read
TokenRequiredIgnored(config) == FALSE

\* line 29: self.city_config.get('token_required', False), for a dict
TokenRequired(config) == Get(config.v, "token_required", FALSE)

\* __init__ as a whole: [exc, city_config, api_token, session, log]
InitOutcome(arg, city, env, file) ==
    LET config == LoadCityConfig(file, city)
        tok == ResolveToken(arg, city, env, file)
        lg == LoadCityConfigLog(file) \o tok.log
        fail(e, t) == [exc |-> e, city_config |-> config, api_token |-> t,
                       session |-> FALSE, log |-> lg]
    IN  IF tok.exc # None THEN fail(tok.exc, None)
        ELSE IF config.t # "dict" THEN fail("AttributeError", tok.value)
        ELSE IF TokenRequired(config) /\ ~Truthy(tok.value) THEN fail("ValueError", tok.value)
        ELSE [exc |-> None, city_config |-> config, api_token |-> tok.value,
              session |-> TRUE, log |-> lg]

-----------------------------------------------------------------------------
(* Inputs of a run *)

TokenArgs == {None, "", "arg_token"}
GenericEnvTokens == {None, "", "generic_token"}
CityEnvTokens == {None, "", "env_token"}
Limits == {1, 2}
Outputs == {None, "out.json"}

\* the environment holding the two variables, an absent one left out
Environ(generic, percity) ==
    (IF generic = None THEN <<>> ELSE (GenericEnvName :> generic))
    @@ (IF percity = None THEN <<>> ELSE (CityEnvName(City) :> percity))

\* the dict of one city entry
ConfigDict(token, required) ==
    (IF token = "absent" THEN <<>> ELSE ("token" :> token))
    @@ (CASE required = "absent" -> <<>>
          [] required = "true" -> ("token_required" :> TRUE)
          [] required = "false" -> ("token_required" :> FALSE))

CityEntries ==
    {Dict(ConfigDict(t, r)) : t \in {"absent", "", "file_token"},
                              r \in {"absent", "true", "false"}}
    \cup {Str("abc")}

ConfigFiles ==
    {[kind |-> k, data |-> <<>>] : k \in {"missing", "malformed", "unreadable", "json"}}
    \cup {[kind |-> "json", data |-> (City :> e)] : e \in CityEntries}

-----------------------------------------------------------------------------
(* fetch_recent_matters *)

\* mutant of AddTokenToParams: the key is set whether or not there is a token
AddTokenToParamsAlways(token, params) == params @@ ("token" :> token)

\* _add_token_to_params
AddTokenToParams(token, params) ==
    IF Truthy(token) THEN params @@ ("token" :> token) ELSE params

\* lines 109-114: the GET request of one fetch
FetchRequest(token, base_url, limit) ==
    [url |-> base_url \o "/matters",
     params |-> AddTokenToParams(token,
                    ("$top" :> limit) @@ ("$orderby" :> "MatterIntroDate desc"))]

\* subclasses of requests.exceptions.RequestException raised by session.get
\* and raise_for_status
RequestExceptions == {"ConnectionError", "HTTPError"}

List(s) == [t |-> "list", v |-> s]
NoValue == [t |-> "unset", v |-> <<>>]

\* mutant of RequestsIssued: a failed request is tried once more
RequestsIssuedWithRetry(request, resp) ==
    IF resp.error \in RequestExceptions THEN <<request, request>> ELSE <<request>>

\* lines 116-131: the GETs issued for one call (session.get is called once)
RequestsIssued(request, resp) == <<request>>

\* mutant of FetchOutcome: the handlers re-raise without logging
FetchOutcomeUnlogged(resp) ==
    IF resp.error \in RequestExceptions \cup {"JSONDecodeError"}
    THEN [exc |-> resp.error, value |-> NoValue, log |-> <<>>]
    ELSE IF resp.body.t # "list"
    THEN [exc |-> "TypeError", value |-> NoValue, log |-> <<>>]
    ELSE [exc |-> None, value |-> resp.body, log |-> <<>>]

\* lines 116-131: [exc, value, log] of one call whose GET was answered by resp.
\* A RequestException or a JSONDecodeError is logged and re-raised; len() of a
\* body that is no container raises TypeError, which no handler catches.
FetchOutcome(resp) ==
    IF resp.error \in RequestExceptions \cup {"JSONDecodeError"}
    THEN [exc |-> resp.error, value |-> NoValue, log |-> <<Error("fetch_recent_matters")>>]
    ELSE IF resp.body.t # "list"
    THEN [exc |-> "TypeError", value |-> NoValue, log |-> <<>>]
    ELSE [exc |-> None, value |-> resp.body, log |-> <<>>]

-----------------------------------------------------------------------------
(* extract_matter_info *)

Digit(n) == CASE n = 0 -> "0" [] n = 1 -> "1" [] n = 2 -> "2" [] n = 3 -> "3"
              [] n = 4 -> "4" [] n = 5 -> "5" [] n = 6 -> "6" [] n = 7 -> "7"
              [] n = 8 -> "8" [] n = 9 -> "9"

\* datetime.utcnow().isoformat() at tick n of the clock
Isoformat(n) ==
    "2024-01-01T12:00:" \o Digit((n \div 10) % 10) \o Digit(n % 10)

\* lines 143-165: the dict literal; matter is the raw dict, now the tick of
\* utcnow()
NormalizedRecord(city, matter, now) ==
    [id |-> Get(matter, "MatterId", None),
     file_number |-> Get(matter, "MatterFile", None),
     name |-> Get(matter, "MatterName", None),
     title |-> Get(matter, "MatterTitle", None),
     type |-> Get(matter, "MatterTypeName", None),
     status |-> Get(matter, "MatterStatusName", None),
     intro_date |-> Get(matter, "MatterIntroDate", None),
     agenda_date |-> Get(matter, "MatterAgendaDate", None),
     passed_date |-> Get(matter, "MatterPassedDate", None),
     enactment_date |-> Get(matter, "MatterEnactmentDate", None),
     enactment_number |-> Get(matter, "MatterEnactmentNumber", None),
     requester |-> Get(matter, "MatterRequester", None),
     notes |-> Get(matter, "MatterNotes", None),
     version |-> Get(matter, "MatterVersion", None),
     text1 |-> Get(matter, "MatterText1", None),
     text2 |-> Get(matter, "MatterText2", None),
     text3 |-> Get(matter, "MatterText3", None),
     text4 |-> Get(matter, "MatterText4", None),
     text5 |-> Get(matter, "MatterText5", None),
     date_scraped |-> Isoformat(now),
     source_url |-> "https://webapi.legistar.com/v1/" \o city \o "/matters/"
                    \o Get(matter, "MatterId", None)]

\* mutant of ExtractMatterInfo: fields without a value are left out
ExtractMatterInfoWithoutNulls(city, matter, now) ==
    LET full == NormalizedRecord(city, matter, now)
    IN  [k \in {f \in DOMAIN full : full[f] # None} |-> full[k]]

\* extract_matter_info(matter), lines 133-165
ExtractMatterInfo(city, matter, now) == NormalizedRecord(city, matter, now)

\* the raw record of the tests' fixture (setUp), identifiers as digit strings
SampleMatter ==
    [MatterId |-> "12345", MatterFile |-> "Int 0123-2024", MatterName |-> "Test Matter",
     MatterTitle |-> "A Local Law to amend the administrative code",
     MatterTypeName |-> "Introduction", MatterStatusName |-> "Committee",
     MatterIntroDate |-> "2024-01-15T00:00:00", MatterAgendaDate |-> "2024-01-20T00:00:00",
     MatterPassedDate |-> None, MatterEnactmentDate |-> None,
     MatterEnactmentNumber |-> None, MatterRequester |-> "Council Member Smith",
     MatterNotes |-> "Test notes", MatterVersion |-> "1", MatterText1 |-> "Summary text",
     MatterText2 |-> None, MatterText3 |-> None, MatterText4 |-> None,
     MatterText5 |-> None]

\* the incomplete record of test_extract_matter_info_missing_fields
IncompleteMatter == [MatterId |-> "999"]

\* elements a response array may hold: three objects and one that is no object
RawItems == {Dict(SampleMatter), Dict(IncompleteMatter), EmptyDict, Str("oops")}

SeqsUpTo(S, n) == UNION {[1..k -> S] : k \in 0..n}

\* what the transport may answer to a GET
Responses ==
    {[error |-> e, body |-> NoValue] : e \in RequestExceptions \cup {"JSONDecodeError"}}
    \cup {[error |-> None, body |-> List(s)] : s \in SeqsUpTo(RawItems, MaxRecords)}
    \cup {[error |-> None, body |-> [t |-> "int", v |-> <<>>]]}

NoResponse == [error |-> "unset", body |-> NoValue]

-----------------------------------------------------------------------------
(* save_to_json *)

\* datetime.now().strftime("%Y%m%d_%H%M%S") of the run
Timestamp == "20240101_120000"

\* lines 202-204
OutputFilename(city, filename) ==
    IF filename = None THEN city \o "_matters_" \o Timestamp \o ".json" ELSE filename

\* the values of the model that stand for Python ints (the identifiers of the
\* fixtures); every other value but None is a str
IntValues == {SampleMatter.MatterId, IncompleteMatter.MatterId}

\* type(v) of a field value, as the JSON encoder dispatches on it
PyType(v) == IF v = None THEN "NoneType" ELSE IF v \in IntValues THEN "int" ELSE "str"

\* json.dump of one field value: null, the digits of an int, a quoted string
\* (default=str is never asked: every field value is None, an int or a str)
JsonText(v) ==
    CASE PyType(v) = "NoneType" -> "null"
      [] PyType(v) = "int" -> v
      [] PyType(v) = "str" -> "\"" \o v \o "\""

\* mutant of JsonDump: keys without a value are skipped
JsonDumpWithoutNulls(list) ==
    [i \in 1..Len(list) |->
        [k \in {f \in DOMAIN list[i] : list[i][f] # None} |-> JsonText(list[i][k])]]

\* json.dump(matters, ...): the array of objects written to the file, each
\* object holding the JSON text of every value under its key
JsonDump(list) ==
    [i \in 1..Len(list) |-> [k \in DOMAIN list[i] |-> JsonText(list[i][k])]]

\* json.load of one value: its type and its value
JsonParse(text) ==
    IF text = "null" THEN [type |-> "NoneType", value |-> None]
    ELSE IF SubSeq(text, 1, 1) = "\""
    THEN [type |-> "str", value |-> SubSeq(text, 2, Len(text) - 1)]
    ELSE [type |-> "int", value |-> text]

\* json.load(f) of a file written by json.dump, as the tests re-read it
JsonLoad(content) ==
    [i \in 1..Len(content) |-> [k \in DOMAIN content[i] |-> JsonParse(content[i][k])]]

\* what can happen to the file: open() fails, the write fails after open()
\* truncated the file, or both succeed
IoOutcomes == {"ok", "open_error", "write_error"}

\* lines 202-210: [exc, value, fs] of one call
SaveOutcome(city, list, filename, io, files) ==
    LET name == OutputFilename(city, filename)
    IN  CASE io = "open_error" ->
               [exc |-> "OSError", value |-> None, fs |-> files]
          [] io = "write_error" ->
               [exc |-> "OSError", value |-> None,
                fs |-> (name :> [complete |-> FALSE, content |-> <<>>]) @@ files]
          [] io = "ok" ->
               [exc |-> None, value |-> name,
                fs |-> (name :> [complete |-> TRUE, content |-> JsonDump(list)]) @@ files]

-----------------------------------------------------------------------------
(* main *)

\* mutant of CliToken: LEGISTAR_API_TOKEN is not read
CliTokenArgumentOnly(token_arg, env) == token_arg

\* mutant of CliToken: the environment variable wins over the argument
CliTokenEnvironmentFirst(token_arg, env) == Or(Getenv(env, GenericEnvName), token_arg)

\* line 227: args.token or os.getenv('LEGISTAR_API_TOKEN')
CliToken(token_arg, env) == Or(token_arg, Getenv(env, GenericEnvName))

\* lines 245-255: the lines of the summary
SummaryLines(list, city, filename) ==
    <<[line |-> "completed"], [line |-> "fetched", count |-> Len(list), city |-> city],
      [line |-> "saved", filename |-> filename]>>
    \o [i \in 1..Len(list) |->
          [line |-> "matter", file_number |-> list[i].file_number,
           name |-> list[i].name, type |-> list[i].type,
           status |-> list[i].status, intro_date |-> list[i].intro_date]]

-----------------------------------------------------------------------------
(* Initial state: the inputs of the run are chosen, nothing has run *)

InitOf(e) ==
    /\ entry = e
    /\ argv \in [token : TokenArgs,
                 limit : Limits,
                 output : IF entry = "main" THEN Outputs ELSE {None}]
    /\ \E g \in (IF entry = "main" THEN GenericEnvTokens ELSE {None}), c \in CityEnvTokens :
          environ = Environ(g, c)
    /\ city_file \in ConfigFiles
    /\ pc = "start"
    /\ exc = None
    /\ ctor_arg = None
    /\ city_config = EmptyDict
    /\ api_token = None
    /\ session = FALSE
    /\ http_log = <<>>
    /\ fetch_calls = 0
    /\ response = NoResponse
    /\ returned = NoValue
    /\ raw_matters = <<>>
    /\ extract_side_effect = {}
    /\ idx = 1
    /\ processed_matters = <<>>
    /\ matters = <<>>
    /\ saved_as = None
    /\ fs = <<>>
    /\ stdout = <<>>
    /\ log = <<>>
    /\ clock = 0
    /\ calls = 0
    /\ last_call = None

\* mutant of AfterCall: main swallows the exception and goes on
AfterCallSwallowing(raised, next) == IF entry = "main" THEN next ELSE "ready"

\* where a method call returns to (or raises to): main's try block, lines
\* 237-259, sends an exception to its handler; a caller of the class gets it
AfterCall(raised, next) ==
    IF entry = "main" THEN (IF raised THEN "except" ELSE next) ELSE "ready"

\* a call is possible: main at the position `at`, a caller of the class
\* whenever it holds an instance
MayCall(at) ==
    IF entry = "main" THEN pc = at ELSE pc = "ready" /\ calls < MaxCalls

-----------------------------------------------------------------------------
(* Actions *)

\* main, lines 224-235: resolve the token, then construct the scraper
MainResolveToken ==
    /\ entry = "main"
    /\ pc = "start"
    /\ ctor_arg' = CliToken(argv.token, environ)
    /\ log' = log \o (IF Truthy(ctor_arg') THEN <<>> ELSE <<Warning("main")>>)
    /\ pc' = "init"
    /\ UNCHANGED <<entry, argv, environ, city_file, exc, city_config, api_token, session,
                   http_log, fetch_calls, response, returned, raw_matters,
                   extract_side_effect, idx, processed_matters, matters, saved_as, fs,
                   stdout, clock, calls, last_call>>

\* a caller of the class constructs LegistarScraper(city, api_token)
CallerConstructs ==
    /\ entry = "lib"
    /\ pc = "start"
    /\ ctor_arg' = argv.token
    /\ pc' = "init"
    /\ UNCHANGED <<entry, argv, environ, city_file, exc, city_config, api_token, session,
                   http_log, fetch_calls, response, returned, raw_matters,
                   extract_side_effect, idx, processed_matters, matters, saved_as, fs,
                   stdout, log, clock, calls, last_call>>

\* LegistarScraper.__init__, lines 18-45.  Raised from main it is outside the
\* try block: the run ends without main's handler.
ScraperInit ==
    /\ pc = "init"
    /\ LET o == InitOutcome(ctor_arg, City, environ, city_file)
       IN  /\ city_config' = o.city_config
           /\ api_token' = o.api_token
           /\ session' = o.session
           /\ log' = log \o o.log
           /\ exc' = o.exc
           /\ pc' = IF o.exc = None THEN "ready" ELSE "failed"
    /\ UNCHANGED <<entry, argv, environ, city_file, ctor_arg, http_log, fetch_calls,
                   response, returned, raw_matters, extract_side_effect, idx,
                   processed_matters, matters, saved_as, fs, stdout, clock, calls,
                   last_call>>

\* fetch_recent_matters(limit) called directly, lines 99-131
FetchRecentMatters ==
    /\ entry = "lib"
    /\ pc = "ready"
    /\ calls < MaxCalls
    /\ \E resp \in Responses :
          LET o == FetchOutcome(resp)
              request == FetchRequest(api_token, BaseUrl(City), argv.limit)
          IN  /\ http_log' = http_log \o RequestsIssued(request, resp)
              /\ response' = resp
              /\ returned' = o.value
              /\ exc' = o.exc
              /\ log' = log \o o.log
    /\ fetch_calls' = fetch_calls + 1
    /\ calls' = calls + 1
    /\ last_call' = "fetch_recent_matters"
    /\ raw_matters' = <<>>
    /\ extract_side_effect' = {}
    /\ idx' = 1
    /\ processed_matters' = <<>>
    /\ matters' = <<>>
    /\ UNCHANGED <<entry, argv, environ, city_file, pc, ctor_arg, city_config, api_token,
                   session, saved_as, fs, stdout, clock>>

\* the calls at which a patched extract_matter_info raises: none, or one of them
PatchedCalls(n) == {{}} \cup {{i} : i \in 1..n}

\* scrape_and_process(limit), lines 177-178: the fetch and the empty result list.
\* A caller from the tests may have patched extract_matter_info to raise at
\* some of its calls (test_scrape_and_process_with_error).
ScrapeAndProcess ==
    /\ MayCall("ready")
    /\ \E resp \in Responses :
          LET o == FetchOutcome(resp)
              request == FetchRequest(api_token, BaseUrl(City), argv.limit)
              fetched == IF o.exc = None THEN o.value.v ELSE <<>>
          IN  /\ http_log' = http_log \o RequestsIssued(request, resp)
              /\ response' = resp
              /\ exc' = o.exc
              /\ log' = log \o o.log
              /\ raw_matters' = fetched
              /\ extract_side_effect' \in
                    (IF entry = "lib" THEN PatchedCalls(Len(fetched)) ELSE {{}})
              /\ pc' = IF o.exc = None THEN "extract" ELSE AfterCall(TRUE, "extract")
    /\ fetch_calls' = fetch_calls + 1
    /\ idx' = 1
    /\ processed_matters' = <<>>
    /\ returned' = NoValue
    /\ matters' = <<>>
    /\ calls' = calls + 1
    /\ last_call' = "scrape_and_process"
    /\ UNCHANGED <<entry, argv, environ, city_file, ctor_arg, city_config, api_token,
                   session, saved_as, fs, stdout, clock>>

\* line 182: extract_matter_info(matter) raises: the element has no .get, or
\* the method is patched to raise at this call
ExtractRaises(matter, patched) == patched \/ matter.t # "dict"

\* line 186: matter.get('MatterId', 'unknown') in the handler raises
HandlerRaises(matter) == matter.t # "dict"

\* mutant of AfterFailure: a failed record leaves a placeholder in the result
AfterFailurePlaceholder(processed, matter) ==
    Append(processed, [id |-> Get(matter.v, "MatterId", None)])

\* lines 185-187: processed_matters after a record whose extraction failed
AfterFailure(processed, matter) == processed

\* scrape_and_process, lines 180-187: one turn of the loop.  In the handler,
\* matter.get('MatterId', 'unknown') is evaluated before logger.error is called:
\* for an element without .get it raises AttributeError out of the handler.
ExtractNext ==
    /\ pc = "extract"
    /\ idx <= Len(raw_matters)
    /\ LET matter == raw_matters[idx]
           raises == ExtractRaises(matter, idx \in extract_side_effect)
       IN  IF ~raises
           THEN /\ processed_matters' =
                      Append(processed_matters, ExtractMatterInfo(City, matter.v, clock))
                /\ clock' = clock + 1
                /\ idx' = idx + 1
                /\ UNCHANGED <<pc, exc, log>>
           ELSE IF ~HandlerRaises(matter)
           THEN /\ log' = log \o <<Error("scrape_and_process")>>
                /\ processed_matters' = AfterFailure(processed_matters, matter)
                /\ idx' = idx + 1
                /\ UNCHANGED <<pc, exc, clock>>
           ELSE /\ exc' = "AttributeError"
                /\ pc' = AfterCall(TRUE, "extract")
                /\ UNCHANGED <<idx, log, processed_matters, clock>>
    /\ UNCHANGED <<entry, argv, environ, city_file, ctor_arg, city_config, api_token,
                   session, http_log, fetch_calls, response, returned, raw_matters,
                   extract_side_effect, matters, saved_as, fs, stdout, calls, last_call>>

\* scrape_and_process, line 189: the loop is over, return processed_matters
ScrapeReturn ==
    /\ pc = "extract"
    /\ idx > Len(raw_matters)
    /\ matters' = processed_matters
    /\ pc' = AfterCall(FALSE, "save")
    /\ UNCHANGED <<entry, argv, environ, city_file, exc, ctor_arg, city_config, api_token,
                   session, http_log, fetch_calls, response, returned, raw_matters,
                   extract_side_effect, idx, processed_matters, saved_as, fs, stdout,
                   log, clock, calls, last_call>>

\* main, line 242: save_to_json(matters, args.output), lines 191-210
SaveToJson ==
    /\ entry = "main"
    /\ pc = "save"
    /\ \E io \in IoOutcomes :
          LET o == SaveOutcome(City, matters, argv.output, io, fs)
          IN  /\ fs' = o.fs
              /\ saved_as' = o.value
              /\ exc' = o.exc
              /\ pc' = AfterCall(o.exc # None, "print")
    /\ calls' = calls + 1
    /\ last_call' = "save_to_json"
    /\ UNCHANGED <<entry, argv, environ, city_file, ctor_arg, city_config, api_token,
                   session, http_log, fetch_calls, response, returned, raw_matters,
                   extract_side_effect, idx, processed_matters, matters, stdout, log,
                   clock>>

\* main, lines 244-255: the summary
PrintSummary ==
    /\ pc = "print"
    /\ stdout' = stdout \o SummaryLines(matters, City, saved_as)
    /\ pc' = "done"
    /\ UNCHANGED <<entry, argv, environ, city_file, exc, ctor_arg, city_config, api_token,
                   session, http_log, fetch_calls, response, returned, raw_matters,
                   extract_side_effect, idx, processed_matters, matters, saved_as, fs,
                   log, clock, calls, last_call>>

\* main, lines 257-259: log the error and re-raise it
MainExcept ==
    /\ pc = "except"
    /\ log' = log \o <<Error("main")>>
    /\ pc' = "failed"
    /\ UNCHANGED <<entry, argv, environ, city_file, exc, ctor_arg, city_config, api_token,
                   session, http_log, fetch_calls, response, returned, raw_matters,
                   extract_side_effect, idx, processed_matters, matters, saved_as, fs,
                   stdout, clock, calls, last_call>>

\* the command-line program
Next ==
    \/ MainResolveToken
    \/ ScraperInit
    \/ ScrapeAndProcess
    \/ ExtractNext
    \/ ScrapeReturn
    \/ SaveToJson
    \/ PrintSummary
    \/ MainExcept

Init == InitOf("main")

Spec == Init /\ [][Next]_vars

\* a caller of the class, as the unit tests are: it constructs an instance and
\* calls fetch_recent_matters and scrape_and_process on it
LibNext ==
    \/ CallerConstructs
    \/ ScraperInit
    \/ FetchRecentMatters
    \/ ScrapeAndProcess
    \/ ExtractNext
    \/ ScrapeReturn

LibInit == InitOf("lib")

LibSpec == LibInit /\ [][LibNext]_vars

-----------------------------------------------------------------------------
(* The inputs of a run, read off the environment and the configuration file *)

\* the value of LEGISTAR_NYC_TOKEN, None when it is not set
CityEnvToken ==
    IF "LEGISTAR_NYC_TOKEN" \in DOMAIN environ THEN environ["LEGISTAR_NYC_TOKEN"] ELSE None

\* the value of LEGISTAR_API_TOKEN, None when it is not set
GenericEnvToken ==
    IF "LEGISTAR_API_TOKEN" \in DOMAIN environ THEN environ["LEGISTAR_API_TOKEN"] ELSE None

\* the configuration file holds a JSON object with an object for the city
HasCityObject ==
    /\ city_file.kind = "json"
    /\ City \in DOMAIN city_file.data
    /\ city_file.data[City].t = "dict"

\* the `token` of the city's entry in the file, None when there is none
FileToken ==
    IF HasCityObject /\ "token" \in DOMAIN city_file.data[City].v
    THEN city_file.data[City].v.token
    ELSE None

\* the city's entry sets token_required = true
FileRequiresToken ==
    /\ HasCityObject
    /\ "token_required" \in DOMAIN city_file.data[City].v
    /\ city_file.data[City].v.token_required

\* a token up to emptiness: the token, or None for an empty or absent one
Effective(token) == IF token = "" THEN None ELSE token

\* line 26 of __init__ has run: the scraper's token is decided
TokenDecided == session \/ (pc = "failed" /\ exc = "ValueError")

-----------------------------------------------------------------------------
(* C1 *)

\* C1 as stated: the effective token is the constructor argument if one is
\* given, else the per-city environment variable if it is set, else the token
\* of the city's entry in the configuration file, else None.  (An empty token
\* and no token are not told apart here: both mean an unauthenticated scraper.)
C1_PrecedenceAsStated ==
    TokenDecided =>
        Effective(api_token) = Effective(IF ctor_arg # None THEN ctor_arg
                                         ELSE IF CityEnvToken # None THEN CityEnvToken
                                         ELSE FileToken)

\* C1 amended: the effective token is the constructor argument if it is given
\* and not empty, else the per-city environment variable if it is set and not
\* empty, else the token of the city's entry in the configuration file if that
\* is not empty, else None.  A lower source is never used when a higher one
\* holds a non-empty token.
C1_TokenPrecedence ==
    TokenDecided =>
        api_token = IF Truthy(ctor_arg) THEN ctor_arg
                    ELSE IF Truthy(CityEnvToken) THEN CityEnvToken
                    ELSE IF Truthy(FileToken) THEN FileToken
                    ELSE None

\* C1 witness: all three sources hold a token and the scraper was constructed
C1_Witness ==
    /\ session
    /\ Truthy(ctor_arg) /\ Truthy(CityEnvToken) /\ Truthy(FileToken)
    /\ api_token = ctor_arg

-----------------------------------------------------------------------------
(* C2 *)

\* no source holds a token
NoTokenResolvable == ~Truthy(ctor_arg) /\ ~Truthy(CityEnvToken) /\ ~Truthy(FileToken)

\* C2: when the city's configuration sets token_required = true and no token
\* is resolvable from the argument, the per-city environment variable or the
\* file, construction fails with ValueError, no session is created and no GET
\* is ever sent in the run.
C2_RequiredTokenEnforced ==
    (pc \notin {"start", "init"} /\ FileRequiresToken /\ NoTokenResolvable) =>
        /\ pc = "failed"
        /\ exc = "ValueError"
        /\ ~session
        /\ http_log = <<>>
        /\ fetch_calls = 0

\* C2 witness: such a construction has failed
C2_Witness ==
    pc = "failed" /\ exc = "ValueError" /\ FileRequiresToken /\ NoTokenResolvable

-----------------------------------------------------------------------------
(* C8 *)

\* C8 as stated: the token main hands to the constructor is --token whenever
\* that argument is given, and LEGISTAR_API_TOKEN only when it is not given.
\* (An empty token and no token are not told apart here.)
C8_CliPrecedenceAsStated ==
    (entry = "main" /\ pc # "start") =>
        Effective(ctor_arg) =
            Effective(IF argv.token # None THEN argv.token ELSE GenericEnvToken)

\* C8 amended: the token main hands to the constructor is --token whenever
\* that argument is given and not empty; the value of LEGISTAR_API_TOKEN is
\* handed over only when --token is not given or is empty.
C8_CliPrecedence ==
    (entry = "main" /\ pc # "start") =>
        ctor_arg = IF Truthy(argv.token) THEN argv.token ELSE GenericEnvToken

\* C8 witness: both are present and the constructor was called
C8_Witness ==
    /\ entry = "main" /\ pc \notin {"start", "init"}
    /\ Truthy(argv.token) /\ Truthy(GenericEnvToken)
    /\ ctor_arg = argv.token

-----------------------------------------------------------------------------
(* C10 *)

\* C10: construction never fails because of the configuration file itself:
\* the only failure of a construction is the ValueError of a required token
\* that is missing.
C10_ConfigFileNeverFailsConstruction ==
    (pc = "failed" /\ fetch_calls = 0) => exc = "ValueError"

\* C10, the three cases it lists: a missing file, a file that is no JSON and
\* a file that cannot be read give an empty configuration and an instance.
C10_ListedCases ==
    (pc \notin {"start", "init"} /\ city_file.kind \in {"missing", "malformed", "unreadable"}) =>
        /\ session
        /\ city_config.t = "dict" /\ DOMAIN city_config.v = {}
        /\ api_token = IF Truthy(ctor_arg) THEN ctor_arg
                       ELSE IF Truthy(CityEnvToken) THEN CityEnvToken ELSE None

-----------------------------------------------------------------------------
(* scrape_and_process seen from its caller *)

\* the last GET was answered with a JSON array
FetchedAList == fetch_calls > 0 /\ response.error = None /\ response.body.t = "list"

\* the last call was scrape_and_process and it is over (returned or raised)
ScrapeOver == last_call = "scrape_and_process" /\ pc # "extract"

\* extraction of the i-th fetched record succeeded
Succeeded(i) == raw_matters[i].t = "dict" /\ i \notin extract_side_effect

\* the fetched records whose extraction succeeded, in the order fetched
RECURSIVE SucceededUpTo(_)
SucceededUpTo(i) ==
    IF i = 0 THEN <<>>
    ELSE IF Succeeded(i) THEN Append(SucceededUpTo(i - 1), raw_matters[i])
    ELSE SucceededUpTo(i - 1)

\* their normalized forms, the k-th stamped with the tick of its extraction
NormalizedSucceeded ==
    LET ok == SucceededUpTo(Len(raw_matters))
    IN  [k \in 1..Len(ok) |-> NormalizedRecord(City, ok[k].v, clock - Len(ok) + k - 1)]

-----------------------------------------------------------------------------
(* C3 *)

\* C3: for every fetched list of raw records scrape_and_process returns
\* normally, and its result is exactly the normalized forms of the records
\* whose extraction succeeded, in the order fetched: no extraction failure of
\* one record aborts the batch.
C3_PartialBatchIsolation ==
    (ScrapeOver /\ FetchedAList) => (exc = None /\ matters = NormalizedSucceeded)

\* C3, for a list of JSON objects only: the call returns the normalized forms
\* of the records that the (possibly patched) extraction accepted.
C3_ObjectsOnly ==
    (ScrapeOver /\ FetchedAList /\ \A i \in 1..Len(raw_matters) : raw_matters[i].t = "dict")
        => (exc = None /\ matters = NormalizedSucceeded)

-----------------------------------------------------------------------------
(* C4 *)

\* the fields the specification lists for a normalized record
ListedFields ==
    {"id", "file_number", "name", "title", "type", "status", "intro_date", "agenda_date",
     "passed_date", "enactment_date", "enactment_number", "requester", "notes", "version",
     "text1", "text2", "text3", "text4", "text5", "date_scraped", "source_url"}

\* C4 as stated: every normalized record has exactly the listed fields, and
\* they are twenty.
C4_TwentyFields ==
    \A i \in 1..Len(processed_matters) :
        /\ DOMAIN processed_matters[i] = ListedFields
        /\ Cardinality(DOMAIN processed_matters[i]) = 20

\* C4 amended: every normalized record has exactly the listed fields, which
\* are twenty-one, whichever raw fields were present in the input record.
C4_StableKeySet ==
    /\ Cardinality(ListedFields) = 21
    /\ \A i \in 1..Len(processed_matters) : DOMAIN processed_matters[i] = ListedFields
    /\ \A i \in 1..Len(matters) : DOMAIN matters[i] = ListedFields

\* C4 witness: two records with different raw fields present were normalized
C4_Witness ==
    /\ Len(matters) = 2
    /\ Len(raw_matters) = 2
    /\ DOMAIN raw_matters[1].v # DOMAIN raw_matters[2].v

-----------------------------------------------------------------------------
(* C5 *)

\* scrape_and_process has returned a result to its caller
ScrapeReturned == ScrapeOver /\ exc = None

\* C5 as stated: the result of a scrape_and_process(limit) that returns is at
\* most limit long and at most as long as the number of raw records
\* successfully extracted, whatever array the API returned.
C5_AtMostLimit ==
    ScrapeReturned =>
        /\ Len(matters) <= argv.limit
        /\ Len(matters) <= Len(SucceededUpTo(Len(raw_matters)))

\* C5 amended: the result of a scrape_and_process(limit) that returns is as
\* long as the number of raw records successfully extracted, hence at most as
\* long as the array the API returned; it is at most limit long whenever that
\* array is.
C5_AtMostFetched ==
    ScrapeReturned =>
        /\ Len(matters) = Len(SucceededUpTo(Len(raw_matters)))
        /\ Len(matters) <= Len(response.body.v)
        /\ (Len(response.body.v) <= argv.limit => Len(matters) <= argv.limit)

\* C5 witness: a call returned after skipping a record and keeping another
C5_Witness ==
    ScrapeReturned /\ Len(matters) >= 1 /\ Len(matters) < Len(raw_matters)

-----------------------------------------------------------------------------
(* C6 *)

\* the token resolved at construction, from the inputs of the run
ResolvedToken ==
    IF Truthy(ctor_arg) THEN ctor_arg
    ELSE IF Truthy(CityEnvToken) THEN CityEnvToken
    ELSE IF Truthy(FileToken) THEN FileToken
    ELSE None

\* C6: every request sent carries a `token` parameter equal to the token
\* resolved at construction if one was resolved, and no `token` key otherwise,
\* over any sequence of fetches on the instance.
C6_TokenInjection ==
    \A i \in 1..Len(http_log) :
        LET params == http_log[i].params
        IN  /\ ("token" \in DOMAIN params) <=> (ResolvedToken # None)
            /\ ("token" \in DOMAIN params) => (params["token"] = ResolvedToken)

\* C6 witness: two requests were sent by an instance holding a token
C6_Witness ==
    /\ Len(http_log) = 2
    /\ ResolvedToken # None
    /\ \A i \in 1..2 : http_log[i].params["token"] = ResolvedToken

-----------------------------------------------------------------------------
(* C7 *)

\* C7: each call of fetch_recent_matters issues exactly one GET; when the
\* request fails with a transport error or its body is no JSON, the call
\* raises that error, returns nothing and sends no second request.
C7_OneGetNoRetry ==
    /\ Len(http_log) = fetch_calls
    /\ (last_call # None /\ response.error # None) => exc = response.error
    /\ (last_call = "fetch_recent_matters" /\ response.error # None) => returned.t = "unset"

\* C7 witness: the second fetch on an instance failed on a transport error
C7_Witness ==
    /\ last_call = "fetch_recent_matters"
    /\ fetch_calls = 2
    /\ response.error = "ConnectionError"
    /\ exc = "ConnectionError"

-----------------------------------------------------------------------------
(* C9 *)

\* C9: in a run of main the output file is opened only after the fetch and the
\* decoding succeeded, and the summary is printed only after save_to_json
\* returned: a run whose fetch or decoding fails opens no file, and a run that
\* fails before or during the save prints nothing.
C9_SaveAfterFetchSummaryAfterSave ==
    entry = "main" =>
        /\ (DOMAIN fs # {}) => (FetchedAList /\ last_call = "save_to_json")
        /\ (fetch_calls > 0 /\ response.error # None) => DOMAIN fs = {}
        /\ (stdout # <<>>) =>
              (saved_as # None /\ saved_as \in DOMAIN fs /\ fs[saved_as].complete)
        /\ (pc \in {"except", "failed"}) => stdout = <<>>

\* C9 witness: a run ended on a failed fetch, without a file and a summary
C9_Witness ==
    /\ entry = "main"
    /\ pc = "failed"
    /\ fetch_calls = 1
    /\ response.error # None
    /\ DOMAIN fs = {}
    /\ stdout = <<>>

-----------------------------------------------------------------------------
(* C11 *)

\* a list of records as json.load sees it: every field with its type
Typed(list) ==
    [i \in 1..Len(list) |->
        [k \in DOMAIN list[i] |-> [type |-> PyType(list[i][k]), value |-> list[i][k]]]]

\* save_to_json returned from a call with an explicit filename
SavedExplicitly ==
    last_call = "save_to_json" /\ exc = None /\ argv.output # None

\* C11: after save_to_json wrote a list of records to an explicit filename,
\* it has returned that filename, and re-reading the file gives a list equal
\* to the one written: same length, same order, every field of every record
\* with its value and type.
C11_SaveRoundTrip ==
    SavedExplicitly =>
        /\ saved_as = argv.output
        /\ argv.output \in DOMAIN fs
        /\ fs[argv.output].complete
        /\ Len(JsonLoad(fs[argv.output].content)) = Len(matters)
        /\ JsonLoad(fs[argv.output].content) = Typed(matters)

\* C11 witness: two different records, with ints, strings and nulls among
\* their fields, were written to an explicit filename
C11_Witness ==
    /\ SavedExplicitly
    /\ Len(matters) = 2
    /\ matters[1].id # matters[2].id
    /\ \E k \in DOMAIN matters[1] : PyType(matters[1][k]) = "int"
    /\ \E k \in DOMAIN matters[1] : PyType(matters[1][k]) = "str"
    /\ \E k \in DOMAIN matters[1] : PyType(matters[1][k]) = "NoneType"

-----------------------------------------------------------------------------
(* C12 *)

\* the error kinds that are fatal to a run: a configuration error at
\* construction, a transport error, a response decode error, a persistence error
FatalKinds == {"ValueError", "JSONDecodeError", "OSError"} \cup RequestExceptions

\* the method in which an error of each kind is raised first
Origin(kind) ==
    CASE kind = "ValueError" -> "__init__"
      [] kind \in RequestExceptions \cup {"JSONDecodeError"} -> "fetch_recent_matters"
      [] kind = "OSError" -> "save_to_json"

\* the error-level records of the log that report a fatal error (those of
\* _load_city_config report a configuration file that is no JSON, which is not
\* fatal; those of scrape_and_process report a record that was skipped)
FatalErrorRecords ==
    SelectSeq(log, LAMBDA r : r.level = "error"
                              /\ r.at \notin {"_load_city_config", "scrape_and_process"})

\* a fatal error has been raised in a run of main
FatalRaised == entry = "main" /\ exc \in FatalKinds

\* the run of main has ended on a fatal error: the exception left main
FatalEnded == FatalRaised /\ pc = "failed"

\* C12 as stated: every fatal error reaches the top of main and ends the run
\* there (no file is completed and nothing is printed after it), and when the
\* run ends the error has been logged exactly once at error level, by the
\* method where it originated.
C12_LoggedOnceAtOrigin ==
    /\ FatalRaised => (pc \in {"except", "failed"} /\ stdout = <<>>)
    /\ FatalEnded => FatalErrorRecords = <<Error(Origin(exc))>>

\* C12 amended: every fatal error reaches the top of main and ends the run
\* there; when the run ends, a transport or decode error has been logged at
\* error level twice, by fetch_recent_matters where it originated and then by
\* main's handler; a persistence error once, by main's handler only; a
\* configuration error at construction, raised before main's try block, not
\* at all.
C12_FatalErrorsSurfaceAndLog ==
    /\ FatalRaised => (pc \in {"except", "failed"} /\ stdout = <<>>)
    /\ FatalEnded =>
          FatalErrorRecords =
              CASE Origin(exc) = "fetch_recent_matters" ->
                     <<Error("fetch_recent_matters"), Error("main")>>
                [] Origin(exc) = "save_to_json" -> <<Error("main")>>
                [] Origin(exc) = "__init__" -> <<>>

\* C12 witness: a run ended on a transport error that both
\* fetch_recent_matters and main's handler logged
C12_Witness ==
    /\ FatalEnded
    /\ exc = "ConnectionError"
    /\ Len(FatalErrorRecords) = 2
    /\ FatalErrorRecords[1].at = "fetch_recent_matters"
    /\ FatalErrorRecords[2].at = "main"

-----------------------------------------------------------------------------
(* C13 *)

\* the run is one of main without --token and with a non-empty
\* LEGISTAR_API_TOKEN, and main has resolved its token
GenericTokenOnly ==
    /\ entry = "main"
    /\ pc # "start"
    /\ argv.token = None
    /\ Truthy(GenericEnvToken)

\* the error and warning records _load_city_config has logged so far
ConfigFileRecords == SelectSeq(log, LAMBDA r : r.at = "_load_city_config")

\* _load_city_token has read the configuration file for a token: the file was
\* loaded a second time, after the load of line 23
FileTokenConsulted ==
    Len(ConfigFileRecords) > Len(LoadCityConfigLog(city_file))

\* the scraper's token was taken from the per-city variable or from the file
PerCitySourceUsed ==
    Truthy(api_token) /\ api_token \in {CityEnvToken, FileToken}

\* C13: in a run of main without --token, a LEGISTAR_API_TOKEN that is set
\* (to a non-empty value) is the api_token argument of the constructor; it is
\* the scraper's token whatever the per-city variable and the file hold, and
\* with it a configuration with token_required = true constructs.  The
\* per-city variable and the file token are used, and the file is read for a
\* token, only when --token and LEGISTAR_API_TOKEN are both absent or empty.
C13_GenericTokenIsExplicit ==
    /\ GenericTokenOnly => ctor_arg = GenericEnvToken
    /\ (GenericTokenOnly /\ pc # "init") =>
          /\ exc # "ValueError"
          /\ api_token = GenericEnvToken
          /\ HasCityObject => session
    /\ (entry = "main" /\ (PerCitySourceUsed \/ FileTokenConsulted)) =>
          (~Truthy(argv.token) /\ ~Truthy(GenericEnvToken))

\* C13 witness: a scraper was constructed on LEGISTAR_API_TOKEN alone although
\* the per-city variable and the file hold tokens and the file requires one
C13_Witness ==
    /\ GenericTokenOnly
    /\ session
    /\ Truthy(CityEnvToken) /\ Truthy(FileToken) /\ FileRequiresToken
    /\ api_token = GenericEnvToken

\* C13, the other side: without --token and LEGISTAR_API_TOKEN the per-city
\* sources decide, and a required token that they do not hold fails the run
C13_PerCityFallback ==
    (entry = "main" /\ ~Truthy(argv.token) /\ ~Truthy(GenericEnvToken) /\ TokenDecided) =>
        /\ api_token = IF Truthy(CityEnvToken) THEN CityEnvToken
                       ELSE IF Truthy(FileToken) THEN FileToken ELSE None
        /\ (FileRequiresToken /\ ~Truthy(CityEnvToken) /\ ~Truthy(FileToken)) =>
              exc = "ValueError"

====
